---- MODULE Spec2Model ----
(***************************************************************************)
(* Transport NSW journey retrieval: the journey utilities                  *)
(* (transportnsw_client/utils.py), the retrieval orchestrator              *)
(* async_update_data and the realtime feed cache GTFSCache                 *)
(* (transportnsw/__init__.py).                                             *)
(*                                                                         *)
(* Python values are encoded as follows.  An Optional value is a sequence: *)
(* None is <<>> and a present value x is <<x>>.  A member of the Enum      *)
(* RouteProductClass and a plain int are records tagged with their class,  *)
(* so that Python's == between an Enum member and an int is FALSE as it is *)
(* in Python (Enum is not IntEnum).  The outcome of a call is a record     *)
(* [exc, val]: exc = "" for a normal return of val, otherwise the name of  *)
(* the exception raised.                                                   *)
(***************************************************************************)
EXTENDS Integers, Sequences, FiniteSets, TLC

None == <<>>
Some(x) == <<x>>

Return(v) == [exc |-> "", val |-> v]
Raise(e) == [exc |-> e, val |-> None]

Member(v) == [cls |-> "RouteProductClass", value |-> v]
PyInt(v) == [cls |-> "int", value |-> v]

\* class RouteProductClass(Enum)
TRAIN == Member(1)
LIGHT_RAIL == Member(4)
BUS == Member(5)
COACH == Member(7)
FERRY == Member(9)
SCHOOL_BUS == Member(11)
WALKING == Member(99)
WALKING_FOOTPATH == Member(100)
BICYCLE == Member(101)
TAKE_BICYCLE_ON_PUBLIC_TRANSPORT == Member(102)
KISS_AND_RIDE == Member(103)
PARK_AND_RIDE == Member(104)
TAXI == Member(105)
CAR == Member(106)

RouteProductClass ==
  { TRAIN, LIGHT_RAIL, BUS, COACH, FERRY, SCHOOL_BUS, WALKING, WALKING_FOOTPATH,
    BICYCLE, TAKE_BICYCLE_ON_PUBLIC_TRANSPORT, KISS_AND_RIDE, PARK_AND_RIDE,
    TAXI, CAR }

\* TripTransportation: product.klass and properties.realtime_trip_id
TripTransportation(klass, rtid) ==
  [product |-> [klass |-> klass], properties |-> [realtime_trip_id |-> rtid]]

\* JourneyLeg: origin stands for the leg's origin stop, transportation is Optional
JourneyLeg(origin, transportation) ==
  [origin |-> origin, transportation |-> transportation]

Reverse(s) == [k \in 1..Len(s) |-> s[Len(s) + 1 - k]]

(***************************************************************************)
(* transportnsw_client/utils.py                                            *)
(***************************************************************************)

\* for leg in legs: if leg.transportation.product.klass not in (WALKING,
\* WALKING_FOOTPATH): return leg.  The attribute access on a leg whose
\* transportation is None raises AttributeError.
RECURSIVE get_first_nonwalking_leg(_)
get_first_nonwalking_leg(legs) ==
  IF legs = <<>> THEN Return(None)
  ELSE LET leg == Head(legs) IN
       IF leg.transportation = None THEN Raise("AttributeError")
       ELSE IF leg.transportation[1].product.klass \notin {WALKING, WALKING_FOOTPATH}
            THEN Return(Some(leg))
            ELSE get_first_nonwalking_leg(Tail(legs))

\* changes = -1; for leg in legs: if klass not in (99, 100): changes += 1
\* klass is a RouteProductClass member and 99, 100 are ints.
RECURSIVE count_changes_from(_, _)
count_changes_from(legs, changes) ==
  IF legs = <<>> THEN Return(changes)
  ELSE LET leg == Head(legs) IN
       IF leg.transportation = None THEN Raise("AttributeError")
       ELSE IF leg.transportation[1].product.klass \notin {PyInt(99), PyInt(100)}
            THEN count_changes_from(Tail(legs), changes + 1)
            ELSE count_changes_from(Tail(legs), changes)

count_trip_changes(legs) == count_changes_from(legs, -1)

\* for entity in feed.entity: if entity.vehicle.trip.trip_id == id: return entity
\* (falls off the end, returning None, when nothing matches)
RECURSIVE find_in_entities(_, _)
find_in_entities(entities, realtime_trip_id) ==
  IF entities = <<>> THEN None
  ELSE IF Head(entities).vehicle.trip.trip_id = realtime_trip_id
       THEN Some(Head(entities))
       ELSE find_in_entities(Tail(entities), realtime_trip_id)

find_realtime_info(feed, realtime_trip_id) ==
  find_in_entities(feed.entity, realtime_trip_id)

\* a bug: coaches looked up in the bus feed
get_gtfs_mode_coach(klass) ==
  IF klass \in {BUS, COACH} THEN Some("buses")
  ELSE IF klass = FERRY THEN Some("ferries")
  ELSE IF klass = LIGHT_RAIL THEN Some("lightrail")
  ELSE IF klass = TRAIN THEN Some("sydneytrains")
  ELSE None

get_gtfs_mode(klass) ==
  IF klass = BUS THEN Some("buses")
  ELSE IF klass = FERRY THEN Some("ferries")
  ELSE IF klass = LIGHT_RAIL THEN Some("lightrail")
  ELSE IF klass = TRAIN THEN Some("sydneytrains")
  ELSE None

(***************************************************************************)
(* Bounds of the model                                                     *)
(***************************************************************************)

\* the clock advances in steps of TickStep seconds, up to MaxNow seconds
TickStep == 15
MaxNow == 90
\* calls of client.get_realtime_feed in one behaviour
MaxFetches == 2

\* the executor threads that run gtfs_cache.get_gtfs_feed
Threads == {"t1", "t2"}
\* the threads that run it for a coordinator whose async_update_data is followed
\* step by step; the other threads run it for the other coordinators
Coordinators == {"t1"}
\* the modes the threads ask for
CallModes == {"buses", "sydneytrains"}

\* entities of a FeedMessage: vehicle.trip.trip_id, and id to tell entities apart
FeedEntity(id, trip_id) == [id |-> id, vehicle |-> [trip |-> [trip_id |-> trip_id]]]

\* the entity lists get_realtime_feed may return
FeedContents ==
  { <<>>,
    << FeedEntity("e1", "T2"), FeedEntity("e2", "T1"), FeedEntity("e3", "T1") >> }

FeedMessage(mode, id, entity) == [mode |-> mode, id |-> id, entity |-> entity]

VARIABLES
  now,      \* time.time(), in seconds
  lock,     \* GTFSCache._lock: the thread holding it, or NoLock
  cache,    \* the lru_cache of _get_gtfs_feed: entries [key, result], least recently used first
  log,      \* history: the calls of client.get_realtime_feed that have completed
  nfetch,   \* history: the number of calls of client.get_realtime_feed started
  pc,       \* per thread: where it is in get_gtfs_feed
  mode,     \* per thread: the mode argument
  ttl,      \* per thread: the ttl_hash argument
  at,       \* per thread: the time at which ttl_hash was computed
  feed,     \* per thread: the value get_gtfs_feed returned (Optional)
  raised,   \* per thread: the exception that left get_gtfs_feed, "" when none did
  resp,     \* per coordinator: resp.journeys of the poll cycle
  it,       \* per coordinator: position of "for journey in resp.journeys", 0 outside a cycle
  res,      \* per coordinator: the list res
  req,      \* per coordinator, history: for each journey handled, the mode whose feed
            \* was requested (Optional) and the feed obtained (Optional)
  status,   \* per coordinator: "" before the first cycle ends, "ok" when the last cycle
            \* returned res, otherwise the exception that ended it
  legs,     \* the argument of the utility function under test
  product_klass,    \* the RouteProductClass given to get_gtfs_mode
  args,     \* the arguments of the call of TransportNSWClient.get_trip
  sent,     \* the query parameters of the HTTP requests get_trip has issued
  calibration_rgb, \* CalibratedLight._calibration_rgb
  rgb_color,       \* the colour async_turn_on is called with
  service_data,    \* the colour of the last light.turn_on call forwarded, if any
  light_state,     \* CalibratedLight._light_state: None, or the State of the
                   \* wrapped light stored last
  added,           \* async_added_to_hass has run: the listener is registered
  light_state_read, \* history: _light_state when rgb_color was read last
  trip,     \* async_setup's loop variable trip, as its position in the trips
            \* configured (0 before the loop); async_update_data closes over it
  platform, \* per coordinator: "none" before it is created, "pending" while the
            \* task loading its sensor platform waits, "loaded" with its
            \* sensors added, "skipped" when setup_platform found no data
  data,     \* per coordinator: DataUpdateCoordinator.data
  last_update_success, \* per coordinator: DataUpdateCoordinator.last_update_success
  query,    \* per coordinator: the arguments its update method gave to
            \* client.get_trip in its last cycle, if any
  cycle,    \* per coordinator: where its cycle of async_update_data is, "idle"
            \* between cycles, "get_trip" and "get_gtfs_feed" while it awaits
            \* that job, with the pairs the loop makes of get_trip's answer and
            \* the position of the journey whose feed is awaited
  reading,  \* the sensor whose property was read last, and the data the
            \* coordinator held then
  out       \* the function applied and its outcome

cacheVars == <<now, lock, cache, log, nfetch>>
threadVars == <<pc, mode, ttl, at, feed, raised>>
pollVars == <<resp, it, res, req, status>>
clientVars == <<args, sent>>
lightVars == <<calibration_rgb, rgb_color, service_data, light_state, added,
               light_state_read>>
hostVars == <<trip, platform, data, last_update_success, query, cycle, reading>>
utilVars == <<legs, product_klass, out, clientVars, lightVars, hostVars>>
vars == <<cacheVars, threadVars, pollVars, utilVars>>

NoLock == ""

\* conf[CONF_TRIPS]: the trips configured, as CONF_TRIP_SCHEMA leaves them;
\* modes_of_transport is Optional without a default
Trips ==
  << [name |-> "work", stop_id |-> "10101100",
      destination_stop_id |-> "10101200", num_journeys |-> 2,
      fare_type |-> "ADULT", modes_of_transport |-> None],
     [name |-> "home", stop_id |-> "10101300",
      destination_stop_id |-> "10101400", num_journeys |-> 1,
      fare_type |-> "CHILD", modes_of_transport |-> Some(<<"train">>)] >>

\* async_setup has not been called: no coordinator, and no sensor read
NoCycle == [pc |-> "idle", pairs |-> <<>>, it |-> 0]

NoHost ==
  /\ trip = 0
  /\ cycle = [k \in DOMAIN Trips |-> NoCycle]
  /\ platform = [k \in DOMAIN Trips |-> "none"]
  /\ data = [k \in DOMAIN Trips |-> None]
  /\ last_update_success = [k \in DOMAIN Trips |-> TRUE]
  /\ query = [k \in DOMAIN Trips |-> None]
  /\ reading = [sensor |-> "", coordinator |-> 0, trip_index |-> 0,
                fare_type |-> "", data |-> None]

\* a light without calibration that has not been added nor turned on
NoLight ==
  /\ calibration_rgb = <<0, 0, 0>>
  /\ rgb_color = <<0, 0, 0>>
  /\ service_data = None
  /\ light_state = None
  /\ added = FALSE
  /\ light_state_read = None

\* get_trip called with its defaults, and no request issued yet
NoCall ==
  /\ args = [origin |-> "", destination |-> "", num_journeys |-> 1,
             depart_at |-> None, arrive_by |-> None,
             include_mot |-> None, exclude_mot |-> None]
  /\ sent = <<>>

(***************************************************************************)
(* GTFSCache (transportnsw/__init__.py)                                    *)
(***************************************************************************)

\* a bug: the bucket as the minute of the clock, int(time.time() / 60)
ttl_hash_floor(t) == t \div 60

\* round(time.time() / 60): Python 3 round, ties go to the even integer
ttl_hash(t) ==
  LET q == t \div 60
      r == t % 60
  IN  IF 2 * r < 60 THEN q
      ELSE IF 2 * r > 60 THEN q + 1
      ELSE IF q % 2 = 0 THEN q ELSE q + 1

\* lru_cache() keeps at most maxsize=128 results
lru_maxsize == 128

\* the key lru_cache makes of the call _get_gtfs_feed(mode=mode, ttl_hash=h)
make_key(m, h) == <<m, h>>

\* a bug: get_gtfs_feed without the lock
lock_free_unlocked(l) == TRUE

\* with self._lock: a thread enters when no thread holds the lock
lock_free(l) == l = NoLock

lru_index(c, key) == {k \in 1..Len(c) : c[k].key = key}
lru_has(c, key) == lru_index(c, key) # {}
lru_get(c, key) == c[CHOOSE k \in lru_index(c, key) : TRUE].result

Without(c, k) == [j \in 1..(Len(c) - 1) |-> IF j < k THEN c[j] ELSE c[j + 1]]

\* a hit moves the entry to the most recently used end
lru_hit(c, key) ==
  LET k == CHOOSE j \in lru_index(c, key) : TRUE
  IN  Append(Without(c, k), c[k])

\* after the wrapped function returned: keep what another thread has stored
\* meanwhile; when full, drop the least recently used entry; then insert
lru_store(c, key, result) ==
  IF lru_has(c, key) THEN c
  ELSE IF Len(c) >= lru_maxsize THEN Append(Tail(c), [key |-> key, result |-> result])
  ELSE Append(c, [key |-> key, result |-> result])

\* a bug: the failure is stored under the key as an empty feed
lru_raise_stored(c, key) == Append(c, [key |-> key, result |-> [mode |-> key[1], id |-> 0, entity |-> <<>>]])

\* the wrapped function raised: the exception passes through, nothing is stored
lru_raise(c, key) == c

\* get_gtfs_feed up to the lookup in the lru_cache: take the lock, compute
\* ttl_hash from the clock, look the key up.  On a hit the cached feed is
\* returned and the lock released; on a miss client.get_realtime_feed is
\* called with the lock held.
get_gtfs_feed(t) ==
  /\ pc[t] = "call"
  /\ lock_free(lock)
  /\ LET h == ttl_hash(now)
         key == make_key(mode[t], h)
     IN  /\ ttl' = [ttl EXCEPT ![t] = h]
         /\ at' = [at EXCEPT ![t] = now]
         /\ IF lru_has(cache, key)
            THEN /\ cache' = lru_hit(cache, key)
                 /\ feed' = [feed EXCEPT ![t] = Some(lru_get(cache, key))]
                 /\ pc' = [pc EXCEPT ![t] = "ret"]
                 /\ UNCHANGED <<lock, nfetch>>
            ELSE /\ nfetch < MaxFetches
                 /\ nfetch' = nfetch + 1
                 /\ lock' = t
                 /\ pc' = [pc EXCEPT ![t] = "fetch"]
                 /\ UNCHANGED <<cache, feed>>
  /\ UNCHANGED <<now, log, mode, raised, pollVars, utilVars>>

\* client.get_realtime_feed(mode) returns a feed: lru_cache stores it, the
\* lock is released, the feed is returned
get_realtime_feed_ok(t) ==
  /\ pc[t] = "fetch"
  /\ \E entity \in FeedContents :
       LET key == make_key(mode[t], ttl[t])
           result == FeedMessage(mode[t], Len(log) + 1, entity)
       IN  /\ cache' = lru_store(cache, key, result)
           /\ feed' = [feed EXCEPT ![t] = Some(result)]
           /\ log' = Append(log, [key |-> key, at |-> at[t], ok |-> TRUE, id |-> result.id])
  /\ lock' = NoLock
  /\ pc' = [pc EXCEPT ![t] = "ret"]
  /\ UNCHANGED <<now, nfetch, mode, ttl, at, raised, pollVars, utilVars>>

\* the exceptions of client.get_realtime_feed: requests.get gets no answer,
\* raise_for_status() finds an error status, ParseFromString() finds a body
\* that is not a FeedMessage
GetRealtimeFeedErrors == {"ConnectionError", "HTTPError", "DecodeError"}

\* client.get_realtime_feed(mode) raises: the exception leaves _get_gtfs_feed
\* and get_gtfs_feed, the with statement releases the lock
get_realtime_feed_raise(t) ==
  /\ pc[t] = "fetch"
  /\ \E e \in GetRealtimeFeedErrors : raised' = [raised EXCEPT ![t] = e]
  /\ cache' = lru_raise(cache, make_key(mode[t], ttl[t]))
  /\ log' = Append(log, [key |-> make_key(mode[t], ttl[t]), at |-> at[t], ok |-> FALSE,
                         id |-> Len(log) + 1])
  /\ lock' = NoLock
  /\ feed' = [feed EXCEPT ![t] = None]
  /\ pc' = [pc EXCEPT ![t] = "raised"]
  /\ UNCHANGED <<now, nfetch, mode, ttl, at, pollVars, utilVars>>

\* time passes
Tick ==
  /\ now + TickStep <= MaxNow
  /\ now' = now + TickStep
  /\ UNCHANGED <<lock, cache, log, nfetch, threadVars, pollVars, utilVars>>

\* an executor thread is handed the job gtfs_cache.get_gtfs_feed(m)
call_get_gtfs_feed(t, m) ==
  /\ pc[t] = "idle"
  /\ it[t] = 0
  /\ pc' = [pc EXCEPT ![t] = "call"]
  /\ mode' = [mode EXCEPT ![t] = m]
  /\ feed' = [feed EXCEPT ![t] = None]
  /\ UNCHANGED <<cacheVars, ttl, at, raised, pollVars, utilVars>>

\* the job has ended, by a return or by an exception
end_get_gtfs_feed(t) ==
  /\ pc[t] \in {"ret", "raised"}
  /\ it[t] = 0
  /\ pc' = [pc EXCEPT ![t] = "idle"]
  /\ mode' = [mode EXCEPT ![t] = ""]
  /\ ttl' = [ttl EXCEPT ![t] = 0]
  /\ at' = [at EXCEPT ![t] = 0]
  /\ feed' = [feed EXCEPT ![t] = None]
  /\ raised' = [raised EXCEPT ![t] = ""]
  /\ UNCHANGED <<cacheVars, pollVars, utilVars>>

InitSystem ==
  /\ now = 0
  /\ lock = NoLock
  /\ cache = <<>>
  /\ log = <<>>
  /\ nfetch = 0
  /\ pc = [t \in Threads |-> "idle"]
  /\ mode = [t \in Threads |-> ""]
  /\ ttl = [t \in Threads |-> 0]
  /\ at = [t \in Threads |-> 0]
  /\ feed = [t \in Threads |-> None]
  /\ raised = [t \in Threads |-> ""]
  /\ resp = [t \in Threads |-> <<>>]
  /\ it = [t \in Threads |-> 0]
  /\ res = [t \in Threads |-> <<>>]
  /\ req = [t \in Threads |-> <<>>]
  /\ status = [t \in Threads |-> ""]

InitCache ==
  /\ InitSystem
  /\ legs = <<>>
  /\ product_klass = WALKING
  /\ NoCall
  /\ NoLight
  /\ NoHost
  /\ out = [op |-> "", exc |-> "", val |-> None]

NextCache ==
  \/ \E t \in Threads, m \in CallModes : call_get_gtfs_feed(t, m)
  \/ \E t \in Threads : get_gtfs_feed(t)
  \/ \E t \in Threads : get_realtime_feed_ok(t)
  \/ \E t \in Threads : get_realtime_feed_raise(t)
  \/ \E t \in Threads : end_get_gtfs_feed(t)
  \/ Tick

\* the cache under concurrent callers
SpecCache == InitCache /\ [][NextCache]_vars

(***************************************************************************)
(* The retrieval orchestrator async_update_data (transportnsw/__init__.py) *)
(***************************************************************************)

\* journeys in one trip response, and legs in one leg sequence under test
MaxJourneys == 2
MaxLegs == 3

\* the legs a response is made of: no transportation; walking; footpath; a bus
\* with and without a realtime trip id; a train; a coach
NoTransportation == None
WalkLeg == Some(TripTransportation(WALKING, None))
FootpathLeg == Some(TripTransportation(WALKING_FOOTPATH, None))
BusT1 == Some(TripTransportation(BUS, Some("T1")))
BusNoId == Some(TripTransportation(BUS, None))
TrainT2 == Some(TripTransportation(TRAIN, Some("T2")))
CoachT1 == Some(TripTransportation(COACH, Some("T1")))

LegKinds == {NoTransportation, WalkLeg, FootpathLeg, BusT1, BusNoId, TrainT2, CoachT1}

\* the legs of a journey, each with its own origin stop
Legs(kinds) == [k \in 1..Len(kinds) |-> JourneyLeg(k, kinds[k])]

Journey(kinds) == [legs |-> Legs(kinds)]

\* the journeys get_trip may return
JourneyList ==
  << Journey(<<WalkLeg, BusT1, WalkLeg>>),
     Journey(<<NoTransportation>>),
     Journey(<<WalkLeg, TrainT2>>),
     Journey(<<FootpathLeg>>),
     Journey(<<NoTransportation, BusT1>>),
     Journey(<<BusNoId, TrainT2>>),
     Journey(<<CoachT1>>) >>

Journeys == {JourneyList[k] : k \in 1..Len(JourneyList)}

\* JourneyList read in a circle from its i-th journey
Rotation(i) ==
  [k \in 1..Len(JourneyList) |-> JourneyList[((i + k - 2) % Len(JourneyList)) + 1]]

SeqsUpTo(S, n) == UNION {[1..k -> S] : k \in 0..n}

\* resp.journeys: up to MaxJourneys consecutive journeys of the circle, so that
\* every journey comes first and comes after another
Responses ==
  {SubSeq(Rotation(i), 1, n) : i \in 1..Len(JourneyList), n \in 0..MaxJourneys}

\* a bug: only the journeys with realtime information are kept
res_append_if_realtime(r, journey, realtime) ==
  IF realtime = None THEN r ELSE Append(r, <<journey, realtime>>)

\* res.append((journey, realtime))
res_append(r, journey, realtime) == Append(r, <<journey, realtime>>)

\* the exceptions of client.get_trip once the arguments have passed its
\* checks: requests.get gets no answer; raise_for_status() finds an error
\* status; resp.json() finds a body that is not JSON; TripRequestResponse(**data)
\* is given JSON that is not an object, or an object that is not a trip response
MalformedErrors == {"JSONDecodeError", "TypeError", "ValidationError"}
GetTripErrors == {"ConnectionError", "HTTPError"} \cup MalformedErrors

\* resp = await ...(client.get_trip, ...); res = []
update_start(c) ==
  /\ pc[c] = "idle"
  /\ \E r \in Responses : resp' = [resp EXCEPT ![c] = r]
  /\ res' = [res EXCEPT ![c] = <<>>]
  /\ req' = [req EXCEPT ![c] = <<>>]
  /\ it' = [it EXCEPT ![c] = 1]
  /\ status' = [status EXCEPT ![c] = ""]
  /\ pc' = [pc EXCEPT ![c] = "loop"]
  /\ UNCHANGED <<cacheVars, mode, ttl, at, feed, raised, utilVars>>

\* client.get_trip raises: the exception leaves async_update_data, the cycle
\* fails before the loop
update_start_raise(c) ==
  /\ pc[c] = "idle"
  /\ resp' = [resp EXCEPT ![c] = <<>>]
  /\ res' = [res EXCEPT ![c] = <<>>]
  /\ req' = [req EXCEPT ![c] = <<>>]
  /\ \E e \in GetTripErrors : status' = [status EXCEPT ![c] = e]
  /\ UNCHANGED <<cacheVars, threadVars, it, utilVars>>

\* one pass of the loop body up to the await or the append
update_journey(c) ==
  /\ pc[c] = "loop"
  /\ it[c] <= Len(resp[c])
  /\ LET journey == resp[c][it[c]]
         origin_leg == get_first_nonwalking_leg(journey.legs)
     IN  IF origin_leg.exc # ""
         THEN \* the exception leaves async_update_data
              /\ status' = [status EXCEPT ![c] = origin_leg.exc]
              /\ req' = [req EXCEPT ![c] = Append(@, [mode |-> None, feed |-> None])]
              /\ pc' = [pc EXCEPT ![c] = "idle"]
              /\ it' = [it EXCEPT ![c] = 0]
              /\ UNCHANGED <<res, mode>>
         ELSE IF origin_leg.val = None
         THEN /\ res' = [res EXCEPT ![c] = res_append(@, journey, None)]
              /\ req' = [req EXCEPT ![c] = Append(@, [mode |-> None, feed |-> None])]
              /\ it' = [it EXCEPT ![c] = @ + 1]
              /\ UNCHANGED <<pc, mode, status>>
         ELSE LET transportation == origin_leg.val[1].transportation[1]
                  realtime_trip_id == transportation.properties.realtime_trip_id
                  m == get_gtfs_mode(transportation.product.klass)
              IN  IF realtime_trip_id # None /\ m # None
                  THEN \* feed = await ...(gtfs_cache.get_gtfs_feed, mode)
                       /\ pc' = [pc EXCEPT ![c] = "call"]
                       /\ mode' = [mode EXCEPT ![c] = m[1]]
                       /\ req' = [req EXCEPT ![c] = Append(@, [mode |-> m, feed |-> None])]
                       /\ UNCHANGED <<res, it, status>>
                  ELSE /\ res' = [res EXCEPT ![c] = res_append(@, journey, None)]
                       /\ req' = [req EXCEPT ![c] = Append(@, [mode |-> None, feed |-> None])]
                       /\ it' = [it EXCEPT ![c] = @ + 1]
                       /\ UNCHANGED <<pc, mode, status>>
  /\ UNCHANGED <<cacheVars, ttl, at, feed, raised, resp, utilVars>>

\* the awaited get_gtfs_feed returned: realtime = find_realtime_info(feed, id);
\* res.append((journey, realtime))
update_resume(c) ==
  /\ pc[c] = "ret"
  /\ it[c] >= 1
  /\ LET journey == resp[c][it[c]]
         origin_leg == get_first_nonwalking_leg(journey.legs).val[1]
         realtime_trip_id == origin_leg.transportation[1].properties.realtime_trip_id
         realtime == find_realtime_info(feed[c][1], realtime_trip_id[1])
     IN  /\ res' = [res EXCEPT ![c] = res_append(@, journey, realtime)]
         /\ req' = [req EXCEPT ![c] = [@ EXCEPT ![Len(@)].feed = feed[c]]]
  /\ it' = [it EXCEPT ![c] = @ + 1]
  /\ pc' = [pc EXCEPT ![c] = "loop"]
  /\ mode' = [mode EXCEPT ![c] = ""]
  /\ ttl' = [ttl EXCEPT ![c] = 0]
  /\ at' = [at EXCEPT ![c] = 0]
  /\ feed' = [feed EXCEPT ![c] = None]
  /\ UNCHANGED <<cacheVars, raised, resp, status, utilVars>>

\* the awaited get_gtfs_feed raised: the exception leaves async_update_data
update_resume_raise(c) ==
  /\ pc[c] = "raised"
  /\ it[c] >= 1
  /\ status' = [status EXCEPT ![c] = raised[c]]
  /\ raised' = [raised EXCEPT ![c] = ""]
  /\ pc' = [pc EXCEPT ![c] = "idle"]
  /\ it' = [it EXCEPT ![c] = 0]
  /\ mode' = [mode EXCEPT ![c] = ""]
  /\ ttl' = [ttl EXCEPT ![c] = 0]
  /\ at' = [at EXCEPT ![c] = 0]
  /\ UNCHANGED <<cacheVars, feed, resp, res, req, utilVars>>

\* the loop is over: return res
update_return(c) ==
  /\ pc[c] = "loop"
  /\ it[c] > Len(resp[c])
  /\ status' = [status EXCEPT ![c] = "ok"]
  /\ pc' = [pc EXCEPT ![c] = "idle"]
  /\ it' = [it EXCEPT ![c] = 0]
  /\ UNCHANGED <<cacheVars, mode, ttl, at, feed, raised, resp, res, req, utilVars>>

\* a minute passes between poll cycles (SCAN_INTERVAL)
TickMinute ==
  /\ now + 60 <= MaxNow
  /\ now' = now + 60
  /\ UNCHANGED <<lock, cache, log, nfetch, threadVars, pollVars, utilVars>>

Init == InitCache

Next ==
  \/ \E c \in Coordinators : update_start(c)
  \/ \E c \in Coordinators : update_start_raise(c)
  \/ \E c \in Coordinators : update_journey(c)
  \/ \E c \in Coordinators : update_resume(c)
  \/ \E c \in Coordinators : update_resume_raise(c)
  \/ \E c \in Coordinators : update_return(c)
  \/ \E t \in Threads \ Coordinators, m \in CallModes : call_get_gtfs_feed(t, m)
  \/ \E t \in Threads \ Coordinators : end_get_gtfs_feed(t)
  \/ \E t \in Threads : get_gtfs_feed(t)
  \/ \E t \in Threads : get_realtime_feed_ok(t)
  \/ \E t \in Threads : get_realtime_feed_raise(t)
  \/ TickMinute

\* the coordinators' poll cycles over the shared cache
Spec == Init /\ [][Next]_vars

(***************************************************************************)
(* The journey utilities applied to every leg sequence of up to MaxLegs    *)
(* legs                                                                    *)
(***************************************************************************)

LegSeqs == {Legs(kinds) : kinds \in SeqsUpTo(LegKinds, MaxLegs)}

Applied(op, outcome) == [op |-> op, exc |-> outcome.exc, val |-> outcome.val]

\* get_first_nonwalking_leg(journey.legs)
apply_first_nonwalking_leg ==
  /\ out' = Applied("first_forward", get_first_nonwalking_leg(legs))
  /\ UNCHANGED <<cacheVars, threadVars, pollVars, legs, product_klass, clientVars, lightVars, hostVars>>

\* get_first_nonwalking_leg(reversed(journey.legs))
apply_first_nonwalking_leg_reversed ==
  /\ out' = Applied("first_reversed", get_first_nonwalking_leg(Reverse(legs)))
  /\ UNCHANGED <<cacheVars, threadVars, pollVars, legs, product_klass, clientVars, lightVars, hostVars>>

\* count_trip_changes(journey.legs)
apply_count_trip_changes ==
  /\ out' = Applied("count_trip_changes", count_trip_changes(legs))
  /\ UNCHANGED <<cacheVars, threadVars, pollVars, legs, product_klass, clientVars, lightVars, hostVars>>

\* get_gtfs_mode(product_klass)
apply_get_gtfs_mode ==
  /\ out' = Applied("get_gtfs_mode", Return(get_gtfs_mode(product_klass)))
  /\ UNCHANGED <<cacheVars, threadVars, pollVars, legs, product_klass, clientVars, lightVars, hostVars>>

InitUtils ==
  /\ InitSystem
  /\ legs \in LegSeqs
  /\ product_klass \in RouteProductClass
  /\ NoCall
  /\ NoLight
  /\ NoHost
  /\ out = [op |-> "", exc |-> "", val |-> None]

NextUtils ==
  \/ apply_first_nonwalking_leg
  \/ apply_first_nonwalking_leg_reversed
  \/ apply_count_trip_changes
  \/ apply_get_gtfs_mode

SpecUtils == InitUtils /\ [][NextUtils]_vars

(***************************************************************************)
(* TransportNSWClient (transportnsw_client/__init__.py)                    *)
(***************************************************************************)

\* ModeOfTransport, in the order of the Literal
ModeList == <<"train", "light_rail", "bus", "coach", "ferry", "school_bus">>

Range(s) == {s[i] : i \in DOMAIN s}

ModeOfTransport == Range(ModeList)

excl_mot_map ==
  [m \in ModeOfTransport |->
     CASE m = "train" -> "exclMOT_1"
       [] m = "light_rail" -> "exclMOT_4"
       [] m = "bus" -> "exclMOT_5"
       [] m = "coach" -> "exclMOT_7"
       [] m = "ferry" -> "exclMOT_9"
       [] m = "school_bus" -> "exclMOT_11"]

\* the truth value Python gives an Optional list: None and [] are both false
Truthy(list) == list # None /\ list[1] # <<>>

\* the dict returned, as the set of its items
get_exclude_mot_params(include_mot, exclude_mot) ==
  IF Truthy(include_mot)
  THEN LET exclude == DOMAIN excl_mot_map \ Range(include_mot[1])
       IN  {<<"excludedMeans", "checkbox">>}
             \cup {<<excl_mot_map[entry], "1">> : entry \in exclude}
  ELSE IF exclude_mot # None
  THEN {<<"excludedMeans", "checkbox">>}
         \cup {<<excl_mot_map[mot], "1">> : mot \in Range(exclude_mot[1])}
  ELSE {}

\* the query parameters get_trip builds from its arguments a at the clock t:
\* itd.strftime("%Y%m%d") is the day and itd.strftime("%H%M") the minute of
\* the day of itd, in seconds since the epoch
trip_params(a, t) ==
  LET itd == IF a.depart_at # None THEN a.depart_at[1]
             ELSE IF a.arrive_by # None THEN a.arrive_by[1]
             ELSE t
  IN  [depArrMacro |-> IF a.arrive_by # None THEN "arr" ELSE "dep",
       itdDate |-> itd \div 86400,
       itdTime |-> (itd % 86400) \div 60,
       name_origin |-> a.origin,
       name_destination |-> a.destination,
       calcNumberOfTrips |-> a.num_journeys,
       exclude_mot_params |->
         get_exclude_mot_params(a.include_mot, a.exclude_mot)]

\* a bug: get_trip without the check of depart_at and arrive_by
get_trip_unchecked(a, t) ==
  IF a.include_mot # None /\ a.exclude_mot # None
  THEN Raise("AssertionError")
  ELSE Return(Some(trip_params(a, t)))

\* get_trip up to requests.get: the error raised, or the parameters of the
\* request
get_trip(a, t) ==
  IF a.depart_at # None /\ a.arrive_by # None
  THEN Raise("AssertionError")
  ELSE IF a.include_mot # None /\ a.exclude_mot # None
  THEN Raise("AssertionError")
  ELSE Return(Some(trip_params(a, t)))

\* get_trip raises before requests.get
get_trip_rejected ==
  /\ out.op = ""
  /\ sent = <<>>
  /\ get_trip(args, now).exc # ""
  /\ out' = Applied("get_trip", get_trip(args, now))
  /\ UNCHANGED <<cacheVars, threadVars, pollVars, legs, product_klass, clientVars, lightVars, hostVars>>

\* get_trip calls requests.get: the request is issued, and the thread waits
\* for the answer
get_trip_request ==
  /\ out.op = ""
  /\ sent = <<>>
  /\ get_trip(args, now).exc = ""
  /\ sent' = Append(sent, get_trip(args, now).val[1])
  /\ UNCHANGED <<cacheVars, threadVars, pollVars, legs, product_klass, out, args, lightVars, hostVars>>

\* the call in which get_trip has issued its request has not ended
InRequest == out.op = "" /\ sent # <<>>

\* the answer arrives and get_trip returns the response parsed
get_trip_ok ==
  /\ InRequest
  /\ out' = Applied("get_trip", Return(Some("TripRequestResponse")))
  /\ UNCHANGED <<cacheVars, threadVars, pollVars, legs, product_klass, clientVars, lightVars, hostVars>>

\* the answer arrives and resp.raise_for_status() raises
get_trip_http_error ==
  /\ InRequest
  /\ out' = Applied("get_trip", Raise("HTTPError"))
  /\ UNCHANGED <<cacheVars, threadVars, pollVars, legs, product_klass, clientVars, lightVars, hostVars>>

\* no answer arrives: requests.get raises
get_trip_connection_error ==
  /\ InRequest
  /\ out' = Applied("get_trip", Raise("ConnectionError"))
  /\ UNCHANGED <<cacheVars, threadVars, pollVars, legs, product_klass, clientVars, lightVars, hostVars>>

\* the answer arrives and its body is not JSON (resp.json() raises), or JSON
\* that is not an object or not a trip response (TripRequestResponse(**data)
\* raises)
get_trip_malformed ==
  /\ InRequest
  /\ \E e \in MalformedErrors :
       out' = Applied("get_trip", Raise(e))
  /\ UNCHANGED <<cacheVars, threadVars, pollVars, legs, product_klass, clientVars, lightVars, hostVars>>

\* the lists of modes given to get_trip have up to MaxMot entries in any
\* order, or name any set of modes once
MaxMot == 2

ModeLists ==
  SeqsUpTo(ModeOfTransport, MaxMot)
    \cup {SelectSeq(ModeList, LAMBDA m : m \in S) : S \in SUBSET ModeOfTransport}

\* a departure and an arrival time, in seconds since the epoch
DepartAt == 86400 + 32400
ArriveBy == 86400 + 36000

InitClient ==
  /\ InitSystem
  /\ legs = <<>>
  /\ product_klass = WALKING
  /\ out = [op |-> "", exc |-> "", val |-> None]
  /\ sent = <<>>
  /\ NoLight
  /\ NoHost
  /\ \E d \in {None, Some(DepartAt)}, b \in {None, Some(ArriveBy)},
        i \in {None} \cup {Some(l) : l \in ModeLists},
        e \in {None, Some(<<>>), Some(<<"bus">>), Some(<<"ferry", "bus">>)} :
       args = [origin |-> "10101100", destination |-> "10101200",
               num_journeys |-> 1, depart_at |-> d, arrive_by |-> b,
               include_mot |-> i, exclude_mot |-> e]

NextClient ==
  \/ get_trip_rejected
  \/ get_trip_request
  \/ get_trip_ok
  \/ get_trip_http_error
  \/ get_trip_connection_error
  \/ get_trip_malformed

SpecClient == InitClient /\ [][NextClient]_vars

(***************************************************************************)
(* CalibratedLight (calibrated_light/light.py)                             *)
(***************************************************************************)

\* a bug: only the lower end is clamped
clamp_rgb_low(value) == IF value > 0 THEN value ELSE 0

\* min(max(value, 0), 255)
clamp_rgb(value) ==
  LET lower == IF value > 0 THEN value ELSE 0
  IN  IF lower < 255 THEN lower ELSE 255

apply_calibration(calibration, color_rgb, invert) ==
  LET modifier == IF invert THEN -1 ELSE 1
  IN  << clamp_rgb(color_rgb[1] + (calibration[1] * modifier)),
         clamp_rgb(color_rgb[2] + (calibration[2] * modifier)),
         clamp_rgb(color_rgb[3] + (calibration[3] * modifier)) >>

\* a State of the wrapped light: attributes.get(ATTR_RGB_COLOR) gives color,
\* None when the State has no such attribute
State(color) == [attributes |-> [rgb_color |-> color]]

\* a colour the wrapped light takes without being told to
OtherColor == <<255, 128, 0>>

\* what hass.states.get(self._light_entity_id) may return: None while the
\* wrapped light has no state, a State without a colour, a State with a colour
\* of the light's own, and, once a colour has been forwarded, a State with it
states_get(forwarded) ==
  {None, Some(State(None)), Some(State(Some(OtherColor)))}
    \cup (IF forwarded = None THEN {} ELSE {Some(State(forwarded))})

\* async_turn_on(rgb_color=...) up to its await: the colour is calibrated and
\* forwarded in the call of light.turn_on; the return of the call changes
\* nothing
async_turn_on ==
  /\ service_data' = Some(apply_calibration(calibration_rgb, rgb_color, FALSE))
  /\ UNCHANGED <<cacheVars, threadVars, pollVars, legs, product_klass, out, clientVars,
                 calibration_rgb, rgb_color, light_state, added, light_state_read,
                 hostVars>>

\* async_added_to_hass: the state of the wrapped light is stored, whatever it
\* is, and the listener is registered
async_added_to_hass ==
  /\ ~added
  /\ added' = TRUE
  /\ \E state \in states_get(service_data) : light_state' = state
  /\ UNCHANGED <<cacheVars, threadVars, pollVars, legs, product_klass, out, clientVars,
                 calibration_rgb, rgb_color, service_data, light_state_read, hostVars>>

\* async_state_changed_listener, called at every change of the state of the
\* wrapped light: the state is stored, whatever it is
async_state_changed_listener ==
  /\ added
  /\ \E state \in states_get(service_data) : light_state' = state
  /\ UNCHANGED <<cacheVars, threadVars, pollVars, legs, product_klass, out, clientVars,
                 calibration_rgb, rgb_color, service_data, added, light_state_read,
                 hostVars>>

\* the property rgb_color: the colour of the stored state with the calibration
\* inverted.  Without a stored state None.attributes raises AttributeError; a
\* state without a colour gives None to apply_calibration, which raises
\* TypeError on color_rgb[0]
read_rgb_color ==
  /\ out' = Applied("rgb_color",
                    IF light_state = None THEN Raise("AttributeError")
                    ELSE IF light_state[1].attributes.rgb_color = None
                    THEN Raise("TypeError")
                    ELSE Return(Some(apply_calibration(
                                  calibration_rgb,
                                  light_state[1].attributes.rgb_color[1], TRUE))))
  /\ light_state_read' = light_state
  /\ UNCHANGED <<cacheVars, threadVars, pollVars, legs, product_klass, clientVars,
                 calibration_rgb, rgb_color, service_data, light_state, added,
                 hostVars>>

\* vol.Range(min=-254, max=255) of the calibration, and the range of a
\* colour component
calibration_min == -254
calibration_max == 255
Component == 0..255

\* the calibrations and colours checked: every value of the range in all
\* three components at once, and the triples over the values at and next to
\* the ends of the ranges
CalibrationValues == {calibration_min, -100, 0, 1, calibration_max}
ColorValues == {0, 1, 200, 255}
Triples(S) == {<<r, g, b>> : r \in S, g \in S, b \in S}
Diagonal(S) == {<<x, x, x>> : x \in S}

InitLight ==
  /\ InitSystem
  /\ legs = <<>>
  /\ product_klass = WALKING
  /\ out = [op |-> "", exc |-> "", val |-> None]
  /\ NoCall
  /\ NoHost
  /\ service_data = None
  /\ light_state = None
  /\ added = FALSE
  /\ light_state_read = None
  /\ \/ /\ calibration_rgb \in Triples(CalibrationValues)
        /\ rgb_color \in Triples(ColorValues)
     \/ /\ calibration_rgb \in Diagonal(calibration_min..calibration_max)
        /\ rgb_color \in Diagonal(Component)

NextLight ==
  \/ async_added_to_hass
  \/ async_turn_on
  \/ async_state_changed_listener
  \/ read_rgb_color

SpecLight == InitLight /\ [][NextLight]_vars

(***************************************************************************)
(* async_setup (transportnsw/__init__.py) and the sensor platform          *)
(* (transportnsw/sensor.py).  The DataUpdateCoordinator is Home            *)
(* Assistant's: a cycle that returns stores the result in data and sets    *)
(* last_update_success, a cycle that raises clears last_update_success     *)
(* and leaves data as it is, and cycles are scheduled every SCAN_INTERVAL  *)
(* while the coordinator has listeners.                                    *)
(***************************************************************************)

\* JourneyFareTicket: person and priceBrutto, a Decimal as [digits, exponent]
Ticket(person, digits) ==
  [person |-> person, priceBrutto |-> [digits |-> digits, exponent |-> -2]]

\* Journey with its fare: legs and fare.tickets
FareJourney(kinds, tickets) ==
  [legs |-> Legs(kinds), fare |-> [tickets |-> tickets]]

\* the lists of pairs (journey, realtime) a cycle of async_update_data may
\* return
UpdateResults ==
  LET bus == << FareJourney(<<WalkLeg, BusT1, WalkLeg>>,
                            <<Ticket("ADULT", 450), Ticket("CHILD", 225)>>),
                Some(FeedEntity("e2", "T1")) >>
      train == << FareJourney(<<WalkLeg, TrainT2>>, <<Ticket("ADULT", 1000)>>),
                  None >>
      walk == << FareJourney(<<FootpathLeg>>, <<>>), None >>
  IN  { <<>>, <<bus>>, <<bus, train>>, <<walk>> }

\* the arguments async_update_data gives to client.get_trip, read from the
\* trip that async_setup's variable trip holds when the cycle starts
async_update_data_args(t) ==
  [origin |-> Trips[t].stop_id,
   destination |-> Trips[t].destination_stop_id,
   num_journeys |-> Trips[t].num_journeys,
   depart_at |-> None, arrive_by |-> None,
   include_mot |-> Trips[t].modes_of_transport,
   exclude_mot |-> None]

\* whether the loop of async_update_data awaits the feed for the journey of a
\* pair: its first leg that is not walking has a realtime trip id and a mode
\* with a feed
NeedsFeed(pair) ==
  LET origin_leg == get_first_nonwalking_leg(pair[1].legs) IN
  /\ origin_leg.exc = ""
  /\ origin_leg.val # None
  /\ origin_leg.val[1].transportation[1].properties.realtime_trip_id # None
  /\ get_gtfs_mode(origin_leg.val[1].transportation[1].product.klass) # None

\* the position of the first journey from position i on whose feed is
\* awaited, or 0
NextFeed(pairs, i) ==
  LET S == {n \in i..Len(pairs) : NeedsFeed(pairs[n])}
  IN  IF S = {} THEN 0 ELSE CHOOSE n \in S : \A m \in S : n <= m

\* a cycle starts: async_update_data reads the trip that async_setup's
\* variable holds now, and awaits the job client.get_trip
AwaitGetTrip == [pc |-> "get_trip", pairs |-> <<>>, it |-> 0]

\* the cycle of coordinator k ends, the coordinator stores its outcome, and
\* whoever awaited it goes on.  async_setup awaits the first cycle of each
\* coordinator: it creates the task that loads the sensor platform and, with
\* another trip configured, binds trip to it, creates its coordinator and
\* starts its first cycle, up to the await of client.get_trip
EndCycle(k, coordinator_data, success) ==
  /\ data' = [data EXCEPT ![k] = coordinator_data]
  /\ last_update_success' = [last_update_success EXCEPT ![k] = success]
  /\ IF platform[k] = "none"
     THEN /\ platform' = [platform EXCEPT ![k] = "pending"]
          /\ IF k < Len(Trips)
             THEN /\ trip' = k + 1
                  /\ query' = [query EXCEPT
                                 ![k + 1] = Some(async_update_data_args(trip'))]
                  /\ cycle' = [cycle EXCEPT ![k] = NoCycle,
                                            ![k + 1] = AwaitGetTrip]
             ELSE /\ cycle' = [cycle EXCEPT ![k] = NoCycle]
                  /\ UNCHANGED <<trip, query>>
     ELSE /\ cycle' = [cycle EXCEPT ![k] = NoCycle]
          /\ UNCHANGED <<trip, platform, query>>
  /\ UNCHANGED <<cacheVars, threadVars, pollVars, legs, product_klass, out, clientVars,
                 lightVars, reading>>

\* async_setup up to its first await: trip is bound to the first trip, its
\* coordinator is created, and its first cycle starts
async_setup ==
  /\ trip = 0
  /\ trip' = 1
  /\ query' = [query EXCEPT ![1] = Some(async_update_data_args(trip'))]
  /\ cycle' = [cycle EXCEPT ![1] = AwaitGetTrip]
  /\ UNCHANGED <<cacheVars, threadVars, pollVars, legs, product_klass, out, clientVars,
                 lightVars, platform, data, last_update_success, reading>>

\* a periodic cycle of coordinator k starts; cycles are scheduled while the
\* coordinator has listeners
refresh_start(k) ==
  /\ platform[k] = "loaded"
  /\ cycle[k].pc = "idle"
  /\ query' = [query EXCEPT ![k] = Some(async_update_data_args(trip))]
  /\ cycle' = [cycle EXCEPT ![k] = AwaitGetTrip]
  /\ UNCHANGED <<cacheVars, threadVars, pollVars, legs, product_klass, out, clientVars,
                 lightVars, trip, platform, data, last_update_success, reading>>

\* client.get_trip returns: the loop runs up to the first feed it awaits, or
\* to its end
cycle_get_trip_return(k) ==
  /\ cycle[k].pc = "get_trip"
  /\ \E r \in UpdateResults :
       IF NextFeed(r, 1) = 0
       THEN EndCycle(k, Some(r), TRUE)
       ELSE /\ cycle' = [cycle EXCEPT ![k] = [pc |-> "get_gtfs_feed", pairs |-> r,
                                              it |-> NextFeed(r, 1)]]
            /\ UNCHANGED <<cacheVars, threadVars, pollVars, legs, product_klass, out,
                           clientVars, lightVars, trip, platform, data,
                           last_update_success, query, reading>>

\* client.get_trip raises: the cycle fails
cycle_get_trip_raise(k) ==
  /\ cycle[k].pc = "get_trip"
  /\ EndCycle(k, data[k], FALSE)

\* gtfs_cache.get_gtfs_feed returns: the loop runs up to the next feed it
\* awaits, or to its end
cycle_get_gtfs_feed_return(k) ==
  /\ cycle[k].pc = "get_gtfs_feed"
  /\ IF NextFeed(cycle[k].pairs, cycle[k].it + 1) = 0
     THEN EndCycle(k, Some(cycle[k].pairs), TRUE)
     ELSE /\ cycle' = [cycle EXCEPT
                         ![k].it = NextFeed(cycle[k].pairs, cycle[k].it + 1)]
          /\ UNCHANGED <<cacheVars, threadVars, pollVars, legs, product_klass, out,
                         clientVars, lightVars, trip, platform, data,
                         last_update_success, query, reading>>

\* gtfs_cache.get_gtfs_feed raises: the cycle fails
cycle_get_gtfs_feed_raise(k) ==
  /\ cycle[k].pc = "get_gtfs_feed"
  /\ EndCycle(k, data[k], FALSE)

\* setup_platform: no sensors when the coordinator has no data, otherwise a
\* journey sensor and four fare sensors for each trip_index below num_journeys
setup_platform(k) ==
  /\ platform[k] = "pending"
  /\ platform' = [platform EXCEPT
                    ![k] = IF data[k] = None THEN "skipped" ELSE "loaded"]
  /\ UNCHANGED <<cacheVars, threadVars, pollVars, legs, product_klass, out, clientVars,
                 lightVars, trip, data, last_update_success, query, cycle, reading>>

\* TransportNSWJourneySensor.available and TransportNSWJourneyFareSensor.available
\* of the sensors of a coordinator holding coordinator_data
available(coordinator_data) == coordinator_data # None

\* _get_journey of both sensor classes: the pair at trip_index, or None
get_journey(coordinator_data, trip_index) ==
  IF coordinator_data = None \/ Len(coordinator_data[1]) <= trip_index
  THEN None
  ELSE Some(coordinator_data[1][trip_index + 1])

\* for ticket in tickets: if ticket.person == person: return ticket
RECURSIVE get_ticket(_, _)
get_ticket(tickets, person) ==
  IF tickets = <<>> THEN None
  ELSE IF Head(tickets).person = person THEN Some(Head(tickets))
  ELSE get_ticket(Tail(tickets), person)

\* str() of a Decimal with two decimal places, for the prices of UpdateResults
str(price) ==
  CASE price.digits = 225 /\ price.exponent = -2 -> "2.25"
    [] price.digits = 450 /\ price.exponent = -2 -> "4.50"
    [] price.digits = 1000 /\ price.exponent = -2 -> "10.00"

\* ICONS.get(klass, "mdi:clock")
ICONS(k) ==
  IF k = TRAIN THEN "mdi:train"
  ELSE IF k = LIGHT_RAIL THEN "mdi:tram"
  ELSE IF k \in {BUS, COACH, SCHOOL_BUS} THEN "mdi:bus"
  ELSE IF k = FERRY THEN "mdi:ferry"
  ELSE "mdi:clock"

\* origin.departureTimeEstimated of the stops of the model, in seconds: each
\* stop of a journey is left ten minutes after the one before
departureTimeEstimated(origin) == 600 * origin

\* TransportNSWJourneyFareSensor.native_value.  journey, _ = None raises
\* TypeError; a fare type without a ticket gives None.priceBrutto
fare_native_value(coordinator_data, trip_index, fare_type) ==
  LET got == get_journey(coordinator_data, trip_index) IN
  IF got = None THEN Raise("TypeError")
  ELSE LET journey == got[1][1]
           ticket == get_ticket(journey.fare.tickets, fare_type)
       IN  IF ticket = None THEN Raise("AttributeError")
           ELSE Return(Some(str(ticket[1].priceBrutto)))

\* TransportNSWJourneySensor.native_value at the clock t
journey_native_value(coordinator_data, trip_index, t) ==
  LET got == get_journey(coordinator_data, trip_index) IN
  IF got = None THEN Raise("TypeError")
  ELSE LET journey == got[1][1]
           origin_leg == get_first_nonwalking_leg(journey.legs)
       IN  IF origin_leg.exc # "" THEN Raise(origin_leg.exc)
           ELSE IF origin_leg.val = None THEN Raise("AttributeError")
           ELSE LET due == departureTimeEstimated(origin_leg.val[1].origin) - t
                IN  Return(Some(IF due > 0 THEN due \div 60 ELSE 0))

\* TransportNSWJourneySensor.extra_state_attributes, with the attributes that
\* come from the legs, the ticket and the realtime entity
journey_extra_state_attributes(coordinator_data, trip_index, fare_type) ==
  LET got == get_journey(coordinator_data, trip_index) IN
  IF got = None THEN Raise("TypeError")
  ELSE LET journey == got[1][1]
           realtime == got[1][2]
           origin_leg == get_first_nonwalking_leg(journey.legs)
           dest_leg == get_first_nonwalking_leg(Reverse(journey.legs))
           trip_changes == count_trip_changes(journey.legs)
           ticket == get_ticket(journey.fare.tickets, fare_type)
       IN  IF origin_leg.exc # "" THEN Raise(origin_leg.exc)
           ELSE IF dest_leg.exc # "" THEN Raise(dest_leg.exc)
           ELSE IF origin_leg.val = None \/ dest_leg.val = None
           THEN Raise("AttributeError")
           ELSE IF trip_changes.exc # "" THEN Raise(trip_changes.exc)
           ELSE IF ticket = None THEN Raise("AttributeError")
           ELSE LET transportation == origin_leg.val[1].transportation[1] IN
                Return(Some(
                  [origin_transport_type |-> transportation.product.klass,
                   changes |-> trip_changes.val,
                   real_time_trip_id |->
                     transportation.properties.realtime_trip_id,
                   fare_type |-> ticket[1].person,
                   fare_price |-> str(ticket[1].priceBrutto),
                   vehicle |-> realtime]))

\* TransportNSWJourneySensor.icon
journey_icon(coordinator_data, trip_index) ==
  LET got == get_journey(coordinator_data, trip_index) IN
  IF got = None THEN Raise("TypeError")
  ELSE LET journey == got[1][1]
           origin_leg == get_first_nonwalking_leg(journey.legs)
       IN  IF origin_leg.exc # "" THEN Raise(origin_leg.exc)
           ELSE IF origin_leg.val = None THEN Raise("AttributeError")
           ELSE Return(Some(ICONS(origin_leg.val[1].transportation[1].product.klass)))

\* range(route[CONF_NUM_JOURNEYS]) of setup_platform
TripIndexes(k) == 0..(Trips[k].num_journeys - 1)

FareTypes == {"ADULT", "CHILD", "SCHOLAR", "SENIOR"}

\* a property of the journey sensor trip_index of coordinator k is read
read_journey_sensor(k, trip_index, property) ==
  /\ platform[k] = "loaded"
  /\ trip_index \in TripIndexes(k)
  /\ reading' = [sensor |-> "journey", coordinator |-> k,
                 trip_index |-> trip_index, fare_type |-> Trips[k].fare_type,
                 data |-> data[k]]
  /\ out' = Applied(property,
       CASE property = "native_value" ->
              journey_native_value(data[k], trip_index, now)
         [] property = "extra_state_attributes" ->
              journey_extra_state_attributes(data[k], trip_index,
                                             Trips[k].fare_type)
         [] property = "icon" -> journey_icon(data[k], trip_index)
         [] property = "available" -> Return(Some(available(data[k]))))
  /\ UNCHANGED <<cacheVars, threadVars, pollVars, legs, product_klass, clientVars,
                 lightVars, trip, platform, data, last_update_success, query, cycle>>

\* a property of a fare sensor of trip_index of coordinator k is read
read_fare_sensor(k, trip_index, fare_type, property) ==
  /\ platform[k] = "loaded"
  /\ trip_index \in TripIndexes(k)
  /\ reading' = [sensor |-> "fare", coordinator |-> k,
                 trip_index |-> trip_index, fare_type |-> fare_type,
                 data |-> data[k]]
  /\ out' = Applied(property,
       CASE property = "native_value" ->
              fare_native_value(data[k], trip_index, fare_type)
         [] property = "available" -> Return(Some(available(data[k]))))
  /\ UNCHANGED <<cacheVars, threadVars, pollVars, legs, product_klass, clientVars,
                 lightVars, trip, platform, data, last_update_success, query, cycle>>

InitHost ==
  /\ InitSystem
  /\ legs = <<>>
  /\ product_klass = WALKING
  /\ out = [op |-> "", exc |-> "", val |-> None]
  /\ NoCall
  /\ NoLight
  /\ NoHost

NextHost ==
  \/ async_setup
  \/ \E k \in DOMAIN Trips : cycle_get_trip_return(k)
  \/ \E k \in DOMAIN Trips : cycle_get_trip_raise(k)
  \/ \E k \in DOMAIN Trips : cycle_get_gtfs_feed_return(k)
  \/ \E k \in DOMAIN Trips : cycle_get_gtfs_feed_raise(k)
  \/ \E k \in DOMAIN Trips : setup_platform(k)
  \/ \E k \in DOMAIN Trips : refresh_start(k)
  \/ \E k \in DOMAIN Trips, i \in 0..MaxJourneys :
       \E property \in {"native_value", "extra_state_attributes", "icon",
                        "available"} :
         read_journey_sensor(k, i, property)
  \/ \E k \in DOMAIN Trips, i \in 0..MaxJourneys, fare_type \in FareTypes :
       \E property \in {"native_value", "available"} :
         read_fare_sensor(k, i, fare_type, property)

SpecHost == InitHost /\ [][NextHost]_vars

(***************************************************************************)
(* Properties                                                              *)
(***************************************************************************)

\* A walking leg: no transportation, or a walking classification
IsWalkingLeg(leg) ==
  \/ leg.transportation = None
  \/ leg.transportation[1].product.klass \in {WALKING, WALKING_FOOTPATH}

NonWalking(ls) == {k \in 1..Len(ls) : ~IsWalkingLeg(ls[k])}

AllClassified(ls) == \A k \in 1..Len(ls) : ls[k].transportation # None

MinOf(S) == CHOOSE k \in S : \A j \in S : k <= j
MaxOf(S) == CHOOSE k \in S : \A j \in S : k >= j

\* C9: count_trip_changes(legs) returns the number of non-walking legs minus
\* one, a leg being walking when its class is WALKING or WALKING_FOOTPATH
\* (stated for the leg sequences in which every leg has a class).
C9_CountIsNonWalkingMinusOne ==
  (out.op = "count_trip_changes" /\ AllClassified(legs))
    => /\ out.exc = ""
       /\ out.val = Cardinality(NonWalking(legs)) - 1

\* C10: get_first_nonwalking_leg returns the non-walking leg of lowest index
\* over the legs in forward order and of highest index over the reversed
\* legs, and None in both directions when every leg is a walking leg.
C10_FirstNonWalkingLeg ==
  /\ out.op = "first_forward"
       => /\ out.exc = ""
          /\ out.val = IF NonWalking(legs) = {} THEN None
                       ELSE Some(legs[MinOf(NonWalking(legs))])
  /\ out.op = "first_reversed"
       => /\ out.exc = ""
          /\ out.val = IF NonWalking(legs) = {} THEN None
                       ELSE Some(legs[MaxOf(NonWalking(legs))])

\* What get_first_nonwalking_leg does do: on the leg sequences in which every
\* leg has a transportation it returns as C10 says.
FirstNonWalkingLegWhenAllClassified ==
  AllClassified(legs) => C10_FirstNonWalkingLeg

\* What count_trip_changes does do: it counts every leg, walking or not.
CountIsLegsMinusOne ==
  (out.op = "count_trip_changes" /\ AllClassified(legs))
    => out.exc = "" /\ out.val = Len(legs) - 1

LogIdx == 1..Len(log)
CacheIdx == 1..Len(cache)
Called(t) == pc[t] \in {"fetch", "ret", "raised"}

\* C1: the calls for one mode in one time bucket cause one call of
\* get_realtime_feed that succeeds and none after it, every caller that
\* returns holds the feed of that call, fetched in the caller's own bucket (so
\* that a call in the next bucket has caused a new fetch).
C1_OneFetchPerBucket ==
  /\ \A i, j \in LogIdx : (i < j /\ log[i].ok) => log[j].key # log[i].key
  /\ \A t \in Threads :
       pc[t] = "ret" =>
         \E i \in LogIdx :
           /\ log[i].ok
           /\ log[i].key = <<mode[t], ttl[t]>>
           /\ feed[t] # None
           /\ feed[t][1].id = log[i].id
           /\ feed[t][1].mode = mode[t]
           /\ \E k \in CacheIdx : cache[k].key = log[i].key /\ cache[k].result = feed[t][1]

\* C1 witness: two callers of one mode and bucket have returned with the same
\* feed, and the bucket before had its own fetch.
C1_Witness ==
  \E t, u \in Threads :
    /\ t # u /\ pc[t] = "ret" /\ pc[u] = "ret"
    /\ mode[t] = mode[u] /\ ttl[t] = ttl[u]
    /\ feed[t] # None /\ feed[t] = feed[u]
    /\ \E i \in LogIdx : log[i].ok /\ log[i].key = <<mode[t], ttl[t] - 1>>

Blocked(t) == pc[t] = "call" /\ ~lock_free(lock)

\* C5 as claimed: a caller for one mode is never blocked behind a fetch of
\* another mode.
C5_NotBlockedByOtherMode ==
  \A t, u \in Threads : (Blocked(t) /\ pc[u] = "fetch") => mode[u] = mode[t]

\* C5 as amended: the one lock of GTFSCache serialises the callers of all
\* modes: at most one fetch is in flight, by the thread holding the lock.
C5_FetchesSerialized ==
  /\ Cardinality({t \in Threads : pc[t] = "fetch"}) <= 1
  /\ \A t \in Threads : pc[t] = "fetch" => lock = t

\* C5 witness: a fetch for one mode is in flight and a caller for another mode
\* waits for the lock.
C5_Witness ==
  \E t, u \in Threads :
    /\ pc[u] = "fetch" /\ lock = u
    /\ pc[t] = "call" /\ mode[t] # mode[u] /\ mode[t] # ""

\* C6: a failed fetch is raised to the caller and stores nothing: every cached
\* result is the feed of a fetch that succeeded, and a key whose fetch failed
\* is in the cache only by a later fetch that succeeded.
C6_FailureNotCached ==
  /\ \A t \in Threads :
       pc[t] = "raised" =>
         /\ feed[t] = None
         /\ raised[t] \in GetRealtimeFeedErrors
         /\ \E i \in LogIdx : ~log[i].ok /\ log[i].key = <<mode[t], ttl[t]>>
  /\ \A k \in CacheIdx :
       \E i \in LogIdx : log[i].ok /\ log[i].key = cache[k].key /\ cache[k].result.id = log[i].id
  /\ \A i \in LogIdx :
       (~log[i].ok /\ lru_has(cache, log[i].key)) =>
         \E j \in LogIdx : j > i /\ log[j].ok /\ log[j].key = log[i].key
  /\ \A t \in Threads : (pc[t] = "ret") => (feed[t] # None /\ feed[t][1].id \in {log[i].id : i \in {j \in LogIdx : log[j].ok}})

\* C6 witness: a fetch failed and the next call for the same key, in the same
\* bucket, fetched again and succeeded.
C6_Witness ==
  \E i, j \in LogIdx : i < j /\ ~log[i].ok /\ log[j].ok /\ log[j].key = log[i].key

\* h is round(t / 60), ties to even
IsRound(t, h) ==
  /\ 60 * h - 30 <= t /\ t <= 60 * h + 30
  /\ (t = 60 * h - 30 \/ t = 60 * h + 30) => h % 2 = 0

\* C7 as claimed: the bucket is floor(now / 60): fetches for one mode are in
\* the same minute exactly when they use the same key, and the second call in
\* a minute is served without a fetch.
C7_BucketIsFloor ==
  \A i, j \in LogIdx :
    (i < j /\ log[i].key[1] = log[j].key[1]) =>
      /\ (log[i].at \div 60 = log[j].at \div 60) <=> (log[i].key[2] = log[j].key[2])
      /\ (log[i].ok /\ log[i].at \div 60 = log[j].at \div 60) => FALSE

\* C7 as amended: the bucket is round(now / 60), ties to even: the buckets run
\* from half a minute before to half a minute after each whole minute; after
\* a fetch that succeeded no call of the same mode in the same such bucket
\* fetches.
C7_BucketIsRound ==
  /\ \A t \in Threads : Called(t) => IsRound(at[t], ttl[t])
  /\ \A i \in LogIdx : IsRound(log[i].at, log[i].key[2])
  /\ \A i, j \in LogIdx :
       (i < j /\ log[i].ok /\ log[i].key[1] = log[j].key[1]) =>
         ~ \E h \in 0..MaxNow : IsRound(log[i].at, h) /\ IsRound(log[j].at, h)

\* C7 witness: two fetches for one mode in the same minute of the clock, on
\* either side of the half minute, with different keys.
C7_Witness ==
  \E i, j \in LogIdx :
    /\ i < j /\ log[i].ok
    /\ log[i].key[1] = log[j].key[1]
    /\ log[i].at \div 60 = log[j].at \div 60
    /\ log[i].key[2] # log[j].key[2]

\* C8 as claimed: the cache holds no entry more than one bucket older than
\* the newest, and at most two entries for each of the four modes.
C8_StaleBucketsDiscarded ==
  /\ \A j, k \in CacheIdx : cache[j].key[2] >= cache[k].key[2] - 1
  /\ Len(cache) <= 2 * 4

\* what the code does instead: while the cache is not full, no step discards
\* an entry, however old its bucket.
InsertionKeepsEntries ==
  [][Len(cache) < lru_maxsize =>
       \A k \in CacheIdx : lru_has(cache', cache[k].key) /\ lru_get(cache', cache[k].key) = cache[k].result]_vars

\* after an insertion the cache holds an entry two buckets older than the one
\* inserted, for the same mode.
StaleEntryRetained ==
  /\ Len(cache) >= 2
  /\ \E k \in CacheIdx :
       /\ cache[k].key[1] = cache[Len(cache)].key[1]
       /\ cache[k].key[2] + 2 <= cache[Len(cache)].key[2]

\* the first non-walking leg of a journey, when it has one
FirstNonWalking(journey) == journey.legs[MinOf(NonWalking(journey.legs))]

RealtimeTripId(leg) == leg.transportation[1].properties.realtime_trip_id

\* C2: a journey without a non-walking leg, or whose first non-walking leg has
\* no realtime trip id, is paired with None and does not end the cycle with
\* an error.
C2_NoRealtimeIsNormal ==
  \A c \in Coordinators : \A k \in 1..Len(req[c]) :
    LET journey == resp[c][k] IN
      (\/ NonWalking(journey.legs) = {}
       \/ RealtimeTripId(FirstNonWalking(journey)) = None)
        => /\ k <= Len(res[c])
           /\ res[c][k] = <<journey, None>>

\* C3: a cycle that succeeds returns one pair for each journey of the
\* response, the k-th pair holding the k-th journey.
C3_OnePairPerJourney ==
  \A c \in Coordinators :
    status[c] = "ok" =>
      /\ Len(res[c]) = Len(resp[c])
      /\ \A k \in 1..Len(res[c]) : Len(res[c][k]) = 2 /\ res[c][k][1] = resp[c][k]

\* C3 witness: a cycle has returned the pairs of two different journeys, one
\* with realtime information and one without.
C3_Witness ==
  \E c \in Coordinators :
    /\ status[c] = "ok" /\ Len(res[c]) = 2
    /\ res[c][1][1] # res[c][2][1]
    /\ \E j, k \in 1..2 : res[c][j][2] # None /\ res[c][k][2] = None

\* the entity of lowest index whose trip id is id, None when there is none
FirstMatch(entities, id) ==
  LET hits == {k \in 1..Len(entities) : entities[k].vehicle.trip.trip_id = id}
  IN  IF hits = {} THEN None ELSE Some(entities[MinOf(hits)])

\* a feed is to be requested for the journey
WantsFeed(journey) ==
  /\ NonWalking(journey.legs) # {}
  /\ RealtimeTripId(FirstNonWalking(journey)) # None
  /\ get_gtfs_mode(FirstNonWalking(journey).transportation[1].product.klass) # None

\* what C4 says of the k-th journey handled by coordinator c
FeedRequestedIffRealtime(c, k) ==
  LET journey == resp[c][k]
      leg == FirstNonWalking(journey)
  IN  /\ (req[c][k].mode # None) <=> WantsFeed(journey)
      /\ WantsFeed(journey) =>
           req[c][k].mode = get_gtfs_mode(leg.transportation[1].product.klass)
      /\ k <= Len(res[c]) =>
           res[c][k][2] = IF WantsFeed(journey)
                          THEN FirstMatch(req[c][k].feed[1].entity, RealtimeTripId(leg)[1])
                          ELSE None

\* C4: a feed is requested for a journey exactly when its first non-walking
\* leg exists, has a realtime trip id and a gtfs mode; it is the feed of that
\* mode, and the realtime value paired is the first entity of the feed with
\* that trip id, or None.
C4_FeedRequestedIffRealtime ==
  \A c \in Coordinators : \A k \in 1..Len(req[c]) : FeedRequestedIffRealtime(c, k)

\* What async_update_data does do: C4 holds of the journeys all of whose legs
\* have a transportation.
FeedRequestedWhenAllClassified ==
  \A c \in Coordinators : \A k \in 1..Len(req[c]) :
    AllClassified(resp[c][k].legs) => FeedRequestedIffRealtime(c, k)

\* What async_update_data does do: C2 holds of the journeys all of whose legs
\* have a transportation.
NoRealtimeIsNormalWhenAllClassified ==
  \A c \in Coordinators : \A k \in 1..Len(req[c]) :
    LET journey == resp[c][k] IN
      (/\ AllClassified(journey.legs)
       /\ \/ NonWalking(journey.legs) = {}
          \/ RealtimeTripId(FirstNonWalking(journey)) = None)
        => /\ k <= Len(res[c])
           /\ res[c][k] = <<journey, None>>

\* C13: get_gtfs_mode returns for each of the fourteen RouteProductClass values,
\* never raising: buses for BUS (5), ferries for FERRY (9), lightrail for
\* LIGHT_RAIL (4), sydneytrains for TRAIN (1), and absent for the ten others
C13_GtfsModeTable ==
  /\ Cardinality(RouteProductClass) = 14
  /\ product_klass \in RouteProductClass
  /\ out.op = "get_gtfs_mode" =>
       /\ out.exc = ""
       /\ out.val \in {Some("buses"), Some("ferries"), Some("lightrail"),
                       Some("sydneytrains"), None}
       /\ out.val = Some("buses") <=> product_klass.value = 5
       /\ out.val = Some("ferries") <=> product_klass.value = 9
       /\ out.val = Some("lightrail") <=> product_klass.value = 4
       /\ out.val = Some("sydneytrains") <=> product_klass.value = 1
       /\ out.val = None <=> product_klass.value \in {7, 11, 99, 100, 101, 102, 103, 104, 105, 106}

\* get_gtfs_mode has been applied to COACH and gave absent
C13_Witness ==
  /\ out.op = "get_gtfs_mode"
  /\ product_klass = COACH
  /\ out.val = None

\* the per-mode exclusion flags among the parameters of a request
Flags(params) ==
  {item \in params.exclude_mot_params : item[1] # "excludedMeans"}

\* the flags exclMOT_<code> = 1 of the modes that are not in the list
ComplementFlags(list) ==
  {<<excl_mot_map[m], "1">> : m \in ModeOfTransport \ Range(list)}

\* C11: for every inclusion list over the six modes, the empty list included,
\* the exclusion flags in the request get_trip issues are exactly those of the
\* modes that are not in the list
C11_FlagsAreComplement ==
  (sent # <<>> /\ args.include_mot # None) =>
     Flags(sent[1]) = ComplementFlags(args.include_mot[1])

\* the flags are the complement of every inclusion list that is not empty,
\* and an empty inclusion list sets no flag at all
FlagsAreComplementUnlessEmpty ==
  (sent # <<>> /\ args.include_mot # None) =>
     Flags(sent[1]) = IF args.include_mot[1] = <<>> THEN {}
                      ELSE ComplementFlags(args.include_mot[1])

\* C12: a call of get_trip with both depart_at and arrive_by set issues no
\* HTTP request at any time, and ends in the error raised for the arguments
C12_BothTimesRejected ==
  (args.depart_at # None /\ args.arrive_by # None) =>
     /\ sent = <<>>
     /\ out.op = "get_trip" => out.exc = "AssertionError"

\* get_trip has been called with both times set
C12_Witness ==
  /\ out.op = "get_trip"
  /\ args.depart_at = Some(DepartAt)
  /\ args.arrive_by = Some(ArriveBy)
  /\ args.include_mot = Some(<<"train">>)
  /\ args.exclude_mot = None

InRange(color) == \A i \in 1..3 : color[i] \in Component

\* rgb_color has been read while the stored state of the wrapped light had
\* the colour forwarded by async_turn_on
Adopted ==
  /\ out.op = "rgb_color"
  /\ service_data # None
  /\ light_state_read = Some(State(service_data))

\* C17: both results of apply_calibration have their components in 0..255,
\* and the colour read from the calibrated light after the wrapped light has
\* adopted the forwarded colour is the colour async_turn_on was called with
C17_CalibrationRoundTrips ==
  /\ service_data # None => InRange(service_data[1])
  /\ (out.op = "rgb_color" /\ out.exc = "") => InRange(out.val[1])
  /\ Adopted => out.val = Some(rgb_color)

\* what a component reads back as: itself when the calibrated component is
\* within 0..255, and otherwise the end of the range it was clamped to with
\* the calibration taken off again
ReadBack(cal, c) ==
  IF c + cal > 255 THEN 255 - cal
  ELSE IF c + cal < 0 THEN 0 - cal
  ELSE c

\* C17, amended: both results have their components in 0..255, and a
\* component round-trips exactly when calibrating it did not clamp it
C17_RoundTripsUnlessClamped ==
  /\ service_data # None => InRange(service_data[1])
  /\ (out.op = "rgb_color" /\ out.exc = "") => InRange(out.val[1])
  /\ Adopted =>
       /\ out.exc = ""
       /\ \A i \in 1..3 :
            /\ out.val[1][i] = ReadBack(calibration_rgb[i], rgb_color[i])
            /\ out.val[1][i] = rgb_color[i]
                 <=> rgb_color[i] + calibration_rgb[i] \in Component

\* a colour has been sent, adopted and read back, with one component clamped
\* at each end and one not clamped
C17_Witness ==
  /\ Adopted
  /\ calibration_rgb = <<255, -100, 1>>
  /\ rgb_color = <<200, 1, 200>>
  /\ service_data = Some(<<255, 0, 201>>)
  /\ light_state_read = Some(State(Some(<<255, 0, 201>>)))
  /\ out.val = Some(<<0, 100, 200>>)

\* a read of rgb_color fails with AttributeError exactly when no state of the
\* wrapped light is stored, and with TypeError exactly when the stored state
\* has no colour
ReadWithoutColourRaises ==
  out.op = "rgb_color" =>
    /\ out.exc = "AttributeError" <=> light_state_read = None
    /\ out.exc = "TypeError" <=> light_state_read = Some(State(None))

\* until async_added_to_hass has run no state of the wrapped light is stored
NoStateBeforeAdded == ~added => light_state = None

\* C14: while the last cycle of a coordinator that holds data from an earlier
\* cycle has failed, its sensors report the data source as unavailable
C14_FailedCycleIsUnavailable ==
  \A k \in DOMAIN Trips :
    (data[k] # None /\ ~last_update_success[k]) => ~available(data[k])

\* a cycle that fails leaves the data of the coordinator as it was
FailedCycleKeepsData ==
  [][\A k \in DOMAIN Trips :
       (last_update_success[k] /\ ~last_update_success'[k])
         => data'[k] = data[k]]_vars

\* the sensors of a coordinator report available exactly when it holds data,
\* whatever became of its last cycle
AvailableIffData ==
  (out.op = "available") => out.val = Some(reading.data # None)

\* C15: the arguments of the trip query of every cycle of a trip's
\* coordinator, the first one and the later ones, are those of its own trip
C15_QueryOfOwnTrip ==
  \A k \in DOMAIN Trips :
    query[k] # None => query[k] = Some(async_update_data_args(k))

\* the cycle async_setup awaits for a coordinator queries its own trip, and
\* every cycle queries the trip that async_setup's variable holds
QueryOfLoopVariable ==
  \A k \in DOMAIN Trips :
    /\ platform[k] = "pending" => query[k] = Some(async_update_data_args(k))
    /\ query[k] # None =>
         \E t \in k..trip : query[k] = Some(async_update_data_args(t))

\* the sensor read holds no pair at its trip_index
OutOfRange ==
  reading.data = None \/ Len(reading.data[1]) <= reading.trip_index

\* C16: reading native_value, extra_state_attributes or icon of a sensor
\* whose trip_index is not below the number of pairs the coordinator holds
\* does not fail, and yields None, or the clock icon for icon
C16_OutOfRangeReadIsNone ==
  (reading.sensor \in {"journey", "fare"} /\ OutOfRange
     /\ out.op \in {"native_value", "extra_state_attributes", "icon"}) =>
    /\ out.exc = ""
    /\ IF out.op = "icon" THEN out.val = Some("mdi:clock") ELSE out.val = None

\* every such read raises TypeError
OutOfRangeReadRaises ==
  (reading.sensor \in {"journey", "fare"} /\ OutOfRange
     /\ out.op \in {"native_value", "extra_state_attributes", "icon"}) =>
    out.exc = "TypeError"

====
